---- MODULE Spec2Model ----
(***************************************************************************)
(* Model of the promotional popup custom element, theme/assets/popup.js.   *)
(*                                                                         *)
(* The widget runs on the browser's single UI thread: every handler        *)
(* (connectedCallback, the timer callback, the scroll / wheel / touchmove  *)
(* listeners, the requestAnimationFrame callback, the click listeners, the *)
(* keydown listener, disconnectedCallback) runs to completion, so each is  *)
(* one action.  The handlers are written as functions from the state       *)
(* record St to the next state record, composed the way the code calls     *)
(* them; Becomes(s) assigns the result to the variables.                   *)
(*                                                                         *)
(* Time is counted in seconds: Date.now() and the setTimeout delay are     *)
(* millisecond quantities in the code, and every instant and duration of   *)
(* the model is a whole number of seconds, so dividing each by MsPerSecond *)
(* is exact.  (720 hours in milliseconds does not fit TLC's integers.)     *)
(*                                                                         *)
(* The scroll percentage (scrollTop / max) * 100 >= threshold is compared  *)
(* by cross-multiplication, its exact-arithmetic reading.                  *)
(***************************************************************************)
EXTENDS Integers, Sequences, FiniteSets, Bags, TLC

VARIABLES
    raw,            \* the data-config attribute (never written by the widget)
    mode,           \* localStorage: "ok", "denied" (every access throws), "full" (setItem throws)
    scrollHeight,   \* scrollingEl.scrollHeight
    innerHeight,    \* window.innerHeight
    scrollTop,      \* scrollingEl.scrollTop
    visible,        \* the dialog's focusable descendants that are rendered, in DOM order
    now,            \* Date.now(), in seconds
    ticks,          \* number of clock advances so far
    phase,          \* "new" (constructed), "attached", "detached"
    cfg,            \* #cfg
    storage,        \* localStorage[#storageKey]
    isOpen,         \* classList.contains('is-open')
    ariaHidden,     \* the aria-hidden attribute
    keydown,        \* #onKeyDown is registered on document
    detachTrigger,  \* #detachTrigger: "null", "clearTimeout" or "cleanup"
    timer,          \* the window.setTimeout timer t
    listeners,      \* the registered onScroll / onScrollIntent listeners
    raf,            \* the requestAnimationFrame callback: "none", "pending", "done"
    lastActive,     \* #lastActive
    activeElement,  \* document.activeElement
    unlockScroll,   \* #unlockScroll, the closure of #lockScroll
    htmlOverflow,   \* document.documentElement.style.overflow
    bodyOverflow,   \* document.body.style.overflow
    events,         \* the bag of events #track has delivered
    lastCall,       \* the transition method called last: "none", "open", "close"
    openedFrom      \* the element that had the focus when open() last made the
                    \* closed popup open; "null" once close() has run

vars == <<raw, mode, scrollHeight, innerHeight, scrollTop, visible, now, ticks,
          phase, cfg, storage, isOpen, ariaHidden, keydown, detachTrigger, timer,
          listeners, raf, lastActive, activeElement, unlockScroll, htmlOverflow,
          bodyOverflow, events, lastCall, openedFrom>>

----------------------------------------------------------------------------
(* Bounds of the model *)

MaxTicks == 1
MaxEvents == 3
StartNow == 7200

(* Program constants *)

MsPerSecond == 1000
DefaultDelayMs == 3000
DefaultScrollPercent == 50
DefaultDismissHours == 0
MaxDelayMs == 120000
MinScrollPercent == 1
MaxScrollPercent == 95

----------------------------------------------------------------------------
(* JavaScript values *)

Num(n) == [nan |-> FALSE, val |-> n]
NaN == [nan |-> TRUE, val |-> 0]

Absent == [kind |-> "absent", val |-> 0]
Text == [kind |-> "text", val |-> 0]
Json(n) == [kind |-> "num", val |-> n]

\* Number(v ?? d) for a field v of the parsed blob
NumberOr(v, d) ==
    IF v.kind = "absent" THEN Num(d)
    ELSE IF v.kind = "text" THEN NaN
    ELSE Num(v.val)

\* Number(x) || 0
OrZero(x) == IF x.nan \/ x.val = 0 THEN 0 ELSE x.val

MinOf(a, b) == IF a <= b THEN a ELSE b
MaxOf(a, b) == IF a >= b THEN a ELSE b

clamp(n, min, max) == MinOf(max, MaxOf(min, n))

DEFAULTS ==
    [trigger |-> "delay", delayMs |-> Num(DefaultDelayMs),
     scrollPercent |-> Num(DefaultScrollPercent),
     dismissHours |-> Num(DefaultDismissHours)]

----------------------------------------------------------------------------
(* The state record *)

St ==
    [raw |-> raw, mode |-> mode, scrollHeight |-> scrollHeight,
     innerHeight |-> innerHeight, scrollTop |-> scrollTop, visible |-> visible,
     now |-> now, ticks |-> ticks, phase |-> phase, cfg |-> cfg,
     storage |-> storage, isOpen |-> isOpen, ariaHidden |-> ariaHidden,
     keydown |-> keydown, detachTrigger |-> detachTrigger, timer |-> timer,
     listeners |-> listeners, raf |-> raf, lastActive |-> lastActive,
     activeElement |-> activeElement, unlockScroll |-> unlockScroll,
     htmlOverflow |-> htmlOverflow, bodyOverflow |-> bodyOverflow,
     events |-> events, lastCall |-> lastCall, openedFrom |-> openedFrom]

Becomes(s) ==
    /\ raw' = s.raw
    /\ mode' = s.mode
    /\ scrollHeight' = s.scrollHeight
    /\ innerHeight' = s.innerHeight
    /\ scrollTop' = s.scrollTop
    /\ visible' = s.visible
    /\ now' = s.now
    /\ ticks' = s.ticks
    /\ phase' = s.phase
    /\ cfg' = s.cfg
    /\ storage' = s.storage
    /\ isOpen' = s.isOpen
    /\ ariaHidden' = s.ariaHidden
    /\ keydown' = s.keydown
    /\ detachTrigger' = s.detachTrigger
    /\ timer' = s.timer
    /\ listeners' = s.listeners
    /\ raf' = s.raf
    /\ lastActive' = s.lastActive
    /\ activeElement' = s.activeElement
    /\ unlockScroll' = s.unlockScroll
    /\ htmlOverflow' = s.htmlOverflow
    /\ bodyOverflow' = s.bodyOverflow
    /\ events' = s.events
    /\ lastCall' = s.lastCall
    /\ openedFrom' = s.openedFrom

NoTimer == [state |-> "none", setAt |-> 0, delay |-> 0]
NoLock == [held |-> FALSE, prevHtml |-> "", prevBody |-> ""]
NoRecord == [kind |-> "absent", dismissedAt |-> 0]
Garbage == [kind |-> "garbage", dismissedAt |-> 0]
Record(t) == [kind |-> "record", dismissedAt |-> t]

ScrollListeners == {<<"window", "scroll">>, <<"scrollingEl", "scroll">>}
IntentListeners == {<<"window", "wheel">>, <<"window", "touchmove">>}

----------------------------------------------------------------------------
(* #readConfig *)

readConfig(r) ==
    IF r.blob = "absent" THEN DEFAULTS
    ELSE IF r.blob = "malformed" THEN DEFAULTS
    ELSE [trigger |-> IF r.trigger = "scroll" THEN "scroll" ELSE "delay",
          delayMs |-> NumberOr(r.delayMs, DefaultDelayMs),
          scrollPercent |-> NumberOr(r.scrollPercent, DefaultScrollPercent),
          dismissHours |-> NumberOr(r.dismissHours, DefaultDismissHours)]

----------------------------------------------------------------------------
(* Dismissal store: #isDismissed, #markDismissed *)

TtlSeconds(hours) == clamp(hours, 0, 24 * 30) * ((60 * 60 * 1000) \div MsPerSecond)

\* with <= for < in the comparison against the time to live
isDismissedInclusive(s) ==
    LET hours == OrZero(s.cfg.dismissHours) IN
    IF hours <= 0 THEN FALSE
    ELSE IF s.mode = "denied" THEN FALSE
    ELSE IF s.storage.kind # "record" THEN FALSE
    ELSE IF s.storage.dismissedAt = 0 THEN FALSE
    ELSE s.now - s.storage.dismissedAt <= TtlSeconds(hours)

\* without the early return for hours <= 0
isDismissedAnyHours(s) ==
    IF s.mode = "denied" THEN FALSE
    ELSE IF s.storage.kind # "record" THEN FALSE
    ELSE IF s.storage.dismissedAt = 0 THEN FALSE
    ELSE s.now - s.storage.dismissedAt
            < TtlSeconds(MaxOf(1, OrZero(s.cfg.dismissHours)))

isDismissed(s) ==
    LET hours == OrZero(s.cfg.dismissHours) IN
    IF hours <= 0 THEN FALSE
    ELSE IF s.mode = "denied" THEN FALSE
    ELSE IF s.storage.kind # "record" THEN FALSE
    ELSE IF s.storage.dismissedAt = 0 THEN FALSE
    ELSE s.now - s.storage.dismissedAt < TtlSeconds(hours)

\* writing the record only when none is stored yet
markDismissedOnce(s) ==
    IF s.mode = "ok" /\ s.storage.kind # "record"
    THEN [s EXCEPT !.storage = Record(s.now)]
    ELSE s

markDismissed(s) ==
    IF s.mode = "ok" THEN [s EXCEPT !.storage = Record(s.now)] ELSE s

----------------------------------------------------------------------------
(* #track *)

track(s, name, reason, trigger) ==
    [s EXCEPT !.events =
        @ (+) SetToBag({[name |-> name, reason |-> reason, trigger |-> trigger]})]

----------------------------------------------------------------------------
(* Scroll lock: #lockScroll and the closure it returns *)

\* hiding the overflow without keeping the closure that restores it
lockScrollUnheld(s) ==
    [s EXCEPT !.unlockScroll = NoLock,
              !.htmlOverflow = "hidden",
              !.bodyOverflow = "hidden"]

lockScroll(s) ==
    [s EXCEPT !.unlockScroll = [held |-> TRUE, prevHtml |-> s.htmlOverflow,
                                prevBody |-> s.bodyOverflow],
              !.htmlOverflow = "hidden",
              !.bodyOverflow = "hidden"]

\* with the overflow reset to the empty default instead of the saved values
callUnlockScrollDefault(s) ==
    IF s.unlockScroll.held
    THEN [s EXCEPT !.htmlOverflow = "", !.bodyOverflow = ""]
    ELSE s

\* this.#unlockScroll?.()
callUnlockScroll(s) ==
    IF s.unlockScroll.held
    THEN [s EXCEPT !.htmlOverflow = s.unlockScroll.prevHtml,
                   !.bodyOverflow = s.unlockScroll.prevBody]
    ELSE s

----------------------------------------------------------------------------
(* Trigger engine: #attachTrigger and its closures *)

clearTimeout(s) ==
    IF s.timer.state = "pending"
    THEN [s EXCEPT !.timer = [@ EXCEPT !.state = "cleared"]]
    ELSE s

cleanup(s) == [s EXCEPT !.listeners = {}]

\* this.#detachTrigger?.(); this.#detachTrigger = null
callDetachTrigger(s) ==
    LET s1 == IF s.detachTrigger = "clearTimeout" THEN clearTimeout(s)
              ELSE IF s.detachTrigger = "cleanup" THEN cleanup(s)
              ELSE s
    IN [s1 EXCEPT !.detachTrigger = "null"]

thresholdUnclamped(s) == OrZero(s.cfg.scrollPercent)

threshold(s) == clamp(OrZero(s.cfg.scrollPercent), MinScrollPercent, MaxScrollPercent)

delayMsUnclamped(s) == OrZero(s.cfg.delayMs)

\* ms, the delay handed to setTimeout
delayMsOf(s) == clamp(OrZero(s.cfg.delayMs), 0, MaxDelayMs)

\* getScrollPercent().max
scrollMax(s) == MaxOf(0, s.scrollHeight - s.innerHeight)

\* getScrollPercent().pct >= threshold: pct is 0 when max is 0, and
\* (scrollTop / max) * 100 otherwise
pctReaches(s) ==
    IF scrollMax(s) = 0 THEN 0 >= threshold(s)
    ELSE s.scrollTop * 100 >= threshold(s) * scrollMax(s)

\* without the return that ends the delay branch
attachTriggerFallsThrough(s) ==
    LET s1 == IF s.cfg.trigger = "delay"
              THEN [s EXCEPT !.timer = [state |-> "pending", setAt |-> s.now,
                                        delay |-> delayMsOf(s) \div MsPerSecond]]
              ELSE s
    IN [s1 EXCEPT !.listeners = ScrollListeners \cup IntentListeners,
                  !.raf = "pending",
                  !.detachTrigger = "cleanup"]

attachTrigger(s) ==
    IF s.cfg.trigger = "delay"
    THEN [s EXCEPT !.timer = [state |-> "pending", setAt |-> s.now,
                              delay |-> delayMsOf(s) \div MsPerSecond],
                   !.detachTrigger = "clearTimeout"]
    ELSE [s EXCEPT !.listeners = ScrollListeners \cup IntentListeners,
                   !.raf = "pending",
                   !.detachTrigger = "cleanup"]

----------------------------------------------------------------------------
(* Modal lifecycle: open, close, #focusFirst *)

focusFirst(s) ==
    IF \E i \in 1..Len(s.visible) : s.visible[i] = "close"
    THEN [s EXCEPT !.activeElement = "close"]
    ELSE s

\* without the #isDismissed test at its head
openUnchecked(s0, reason) ==
    LET s == [s0 EXCEPT !.lastCall = "open",
                        !.openedFrom = IF s0.isOpen THEN @ ELSE s0.activeElement]
        s1 == [s EXCEPT !.lastActive = s.activeElement,
                        !.isOpen = TRUE,
                        !.ariaHidden = "false"]
        s2 == callDetachTrigger(s1)
        s3 == lockScroll(callUnlockScroll(s2))
        s4 == focusFirst(s3)
    IN track(s4, "popup_opened", reason, s.cfg.trigger)

open(s0, reason) ==
    LET s == [s0 EXCEPT !.lastCall = "open"] IN
    IF isDismissed(s) THEN s
    ELSE LET s1 == [s EXCEPT !.openedFrom = IF s.isOpen THEN @ ELSE s.activeElement,
                             !.lastActive = s.activeElement,
                             !.isOpen = TRUE,
                             !.ariaHidden = "false"]
             s2 == callDetachTrigger(s1)
             s3 == lockScroll(callUnlockScroll(s2))
             s4 == focusFirst(s3)
         IN track(s4, "popup_opened", reason, s.cfg.trigger)

\* without the dismissHours test around #markDismissed
closeAlwaysMarks(s0, reason) ==
    LET s == [s0 EXCEPT !.lastCall = "close"]
        s1 == [s EXCEPT !.isOpen = FALSE, !.ariaHidden = "true"]
        s2 == markDismissed(s1)
        s3 == [callUnlockScroll(s2) EXCEPT !.unlockScroll = NoLock]
        s4 == track(s3, "popup_dismissed", reason, "none")
        s5 == IF s4.lastActive # "null"
              THEN [s4 EXCEPT !.activeElement = s4.lastActive]
              ELSE s4
    IN [s5 EXCEPT !.lastActive = "null", !.openedFrom = "null"]

\* with the exception of a refused write ending the call
closePropagates(s0, reason) ==
    LET s == [s0 EXCEPT !.lastCall = "close"]
        s1 == [s EXCEPT !.isOpen = FALSE, !.ariaHidden = "true"]
        s2 == IF OrZero(s.cfg.dismissHours) > 0 THEN markDismissed(s1) ELSE s1
        s3 == [callUnlockScroll(s2) EXCEPT !.unlockScroll = NoLock]
        s4 == track(s3, "popup_dismissed", reason, "none")
        s5 == IF s4.lastActive # "null"
              THEN [s4 EXCEPT !.activeElement = s4.lastActive]
              ELSE s4
    IN IF OrZero(s.cfg.dismissHours) > 0 /\ s.mode # "ok"
       THEN s1
       ELSE [s5 EXCEPT !.lastActive = "null", !.openedFrom = "null"]

close(s0, reason) ==
    LET s == [s0 EXCEPT !.lastCall = "close"]
        s1 == [s EXCEPT !.isOpen = FALSE, !.ariaHidden = "true"]
        s2 == IF OrZero(s.cfg.dismissHours) > 0 THEN markDismissed(s1) ELSE s1
        s3 == [callUnlockScroll(s2) EXCEPT !.unlockScroll = NoLock]
        s4 == track(s3, "popup_dismissed", reason, "none")
        s5 == IF s4.lastActive # "null"
              THEN [s4 EXCEPT !.activeElement = s4.lastActive]
              ELSE s4
    IN [s5 EXCEPT !.lastActive = "null", !.openedFrom = "null"]

\* with the page that cannot scroll treated as past the threshold
maybeOpenShortPage(s) ==
    IF scrollMax(s) = 0 \/ pctReaches(s) THEN open(cleanup(s), "scroll")
    ELSE s

maybeOpen(s) ==
    IF scrollMax(s) = 0 THEN s
    ELSE IF pctReaches(s) THEN open(cleanup(s), "scroll")
    ELSE s

\* with the fallback's reason spelt with hyphens
onScrollIntentHyphenated(s) ==
    IF scrollMax(s) = 0 THEN open(cleanup(s), "scroll-intent-fallback")
    ELSE s

onScrollIntent(s) ==
    IF scrollMax(s) = 0 THEN open(cleanup(s), "scroll_intent_fallback")
    ELSE s

----------------------------------------------------------------------------
(* connectedCallback, disconnectedCallback *)

\* without the #isDismissed test before #attachTrigger
connectedCallbackUnchecked(s) ==
    attachTrigger([s EXCEPT !.phase = "attached",
                            !.cfg = readConfig(s.raw),
                            !.keydown = TRUE,
                            !.ariaHidden = IF s.isOpen THEN @ ELSE "true"])

connectedCallback(s) ==
    LET s1 == [s EXCEPT !.phase = "attached",
                        !.cfg = readConfig(s.raw),
                        !.keydown = TRUE,
                        !.ariaHidden = IF s.isOpen THEN @ ELSE "true"]
    IN IF isDismissed(s1) THEN s1 ELSE attachTrigger(s1)

disconnectedCallback(s) ==
    LET s1 == [s EXCEPT !.phase = "detached", !.keydown = FALSE]
        s2 == callDetachTrigger(s1)
    IN [callUnlockScroll(s2) EXCEPT !.unlockScroll = NoLock]

----------------------------------------------------------------------------
(* #onKeyDown *)

IndexOf(seq, e) ==
    IF \E i \in 1..Len(seq) : seq[i] = e
    THEN CHOOSE i \in 1..Len(seq) : seq[i] = e
    ELSE 0

\* Elements of the page outside the dialog that can hold the focus.
Outside == {"page", "link"}

\* The states the handler and the browser's default action can leave: the
\* default action (sequential focus navigation) runs when the handler has not
\* called preventDefault.  From an element outside the dialog it moves the
\* focus to the neighbouring tabbable element of the document: another
\* element outside, or the nearest one of the dialog.
onKeyDown(s, key, shift) ==
    IF ~s.isOpen THEN {s}
    ELSE IF key = "Escape" THEN {close(s, "escape")}
    ELSE IF key # "Tab" THEN {s}
    ELSE LET f == s.visible
             n == Len(f)
             a == s.activeElement
             i == IndexOf(f, a)
         IN IF n = 0 THEN {[s EXCEPT !.activeElement = "dialog"]}
            ELSE IF shift
            THEN IF a = f[1] \/ a = "dialog"
                 THEN {[s EXCEPT !.activeElement = f[n]]}
                 ELSE IF i > 1 THEN {[s EXCEPT !.activeElement = f[i - 1]]}
                 ELSE {[s EXCEPT !.activeElement = e] :
                            e \in (Outside \ {a}) \cup {f[n]}}
            ELSE IF a = f[n]
                 THEN {[s EXCEPT !.activeElement = f[1]]}
                 ELSE IF i >= 1 THEN {[s EXCEPT !.activeElement = f[i + 1]]}
                 ELSE IF a = "dialog" THEN {[s EXCEPT !.activeElement = f[1]]}
                 ELSE {[s EXCEPT !.activeElement = e] :
                            e \in (Outside \ {a}) \cup {f[1]}}

----------------------------------------------------------------------------
(* Inputs: configurations and environments *)

Blob(trigger, delayMs, scrollPercent, dismissHours) ==
    [blob |-> "json", trigger |-> trigger, delayMs |-> delayMs,
     scrollPercent |-> scrollPercent, dismissHours |-> dismissHours]

NoBlob == [blob |-> "absent", trigger |-> "", delayMs |-> Absent,
           scrollPercent |-> Absent, dismissHours |-> Absent]
BadBlob == [blob |-> "malformed", trigger |-> "", delayMs |-> Absent,
            scrollPercent |-> Absent, dismissHours |-> Absent]

DelayValues == {Json(-50), Json(200000), Text}
PercentValues == {Json(50), Json(200), Text}
HoursOff == {Json(-1), Text}
HoursOn == {Json(1), Json(800)}

LongPage == <<200, 100>>
ShortPage == <<80, 100>>
ScrollTops == {0, 1, 50, 95}
AllVisible == <<"close", "cta", "secondary">>
HiddenClose == <<"cta", "secondary">>
TimerSteps == {1, 120}
TtlSteps == {3600, 2592000}
TickSteps == TimerSteps \cup TtlSteps
Refs == {"close", "overlay", "secondary", "cta"}

DelayBlob(h) == Blob("delay", Json(-50), Absent, h)
ScrollBlob(h) == Blob("scroll", Absent, Json(50), h)

\* The page and the stored value the widget is constructed in.
Base ==
    [raw |-> NoBlob, mode |-> "ok", page |-> LongPage, visible |-> AllVisible,
     stored |-> NoRecord, isOpen |-> FALSE, overflow |-> <<"", "">>]

\* Every trigger configuration, dismissal off.
TriggerScenarios ==
    {[Base EXCEPT !.raw = r] :
        r \in {NoBlob, BadBlob, Blob("hover", Absent, Absent, Absent)}
              \cup {Blob("delay", d, Absent, Absent) : d \in DelayValues}}
    \cup {[Base EXCEPT !.raw = Blob("scroll", Absent, p, Absent), !.page = g] :
            p \in PercentValues, g \in {LongPage, ShortPage}}

\* Dismissal on and off, over what the store holds and how it behaves.
DismissScenarios ==
    {[Base EXCEPT !.raw = DelayBlob(h), !.stored = v] :
        h \in HoursOn, v \in {NoRecord, Record(StartNow - 10)}}
    \cup {[Base EXCEPT !.raw = ScrollBlob(Json(1)), !.page = g, !.stored = v] :
            g \in {LongPage, ShortPage}, v \in {NoRecord, Record(StartNow - 10)}}
    \cup {[Base EXCEPT !.raw = DelayBlob(Json(1)), !.stored = v] :
            v \in {Garbage, Record(0)}}
    \cup {[Base EXCEPT !.raw = r, !.stored = Record(StartNow - 10)] :
            r \in {DelayBlob(h) : h \in HoursOff \cup {Absent}}
                  \cup {ScrollBlob(h) : h \in HoursOff}}
    \cup {[Base EXCEPT !.raw = DelayBlob(Json(1)), !.mode = "denied",
                       !.stored = Record(StartNow - 10)],
          [Base EXCEPT !.raw = DelayBlob(Json(1)), !.mode = "full"]}

\* The markup and page styles the widget is attached to.
PageScenarios ==
    {[Base EXCEPT !.raw = r, !.visible = <<>>] : r \in {NoBlob, ScrollBlob(Absent)}}
    \cup {[Base EXCEPT !.visible = HiddenClose]}
    \cup {[Base EXCEPT !.raw = r, !.isOpen = TRUE] : r \in {NoBlob, ScrollBlob(Absent)}}
    \cup {[Base EXCEPT !.raw = r, !.overflow = <<"scroll", "auto">>] :
            r \in {NoBlob, ScrollBlob(Absent)}}

Scenarios == TriggerScenarios \cup DismissScenarios \cup PageScenarios

Init ==
    /\ \E sc \in Scenarios :
          /\ raw = sc.raw
          /\ mode = sc.mode
          /\ scrollHeight = sc.page[1]
          /\ innerHeight = sc.page[2]
          /\ visible = sc.visible
          /\ storage = sc.stored
          /\ isOpen = sc.isOpen
          /\ htmlOverflow = sc.overflow[1]
          /\ bodyOverflow = sc.overflow[2]
    /\ scrollTop = 0
    /\ now = StartNow
    /\ ticks = 0
    /\ phase = "new"
    /\ cfg = DEFAULTS
    /\ ariaHidden = "unset"
    /\ keydown = FALSE
    /\ detachTrigger = "null"
    /\ timer = NoTimer
    /\ listeners = {}
    /\ raf = "none"
    /\ lastActive = "null"
    /\ activeElement = "page"
    /\ unlockScroll = NoLock
    /\ events = EmptyBag
    /\ lastCall = "none"
    /\ openedFrom = "null"

----------------------------------------------------------------------------
(* Actions: one per handler or environment step *)

CanTrack == BagCardinality(events) < MaxEvents

\* The element is inserted into the document.
ConnectedCallback ==
    /\ phase = "new"
    /\ Becomes(connectedCallback(St))

\* The element is removed from the document.
DisconnectedCallback ==
    /\ phase = "attached"
    /\ Becomes(disconnectedCallback(St))

\* The setTimeout callback, () => this.open('delay')
TimerFire ==
    /\ timer.state = "pending"
    /\ now >= timer.setAt + timer.delay
    /\ CanTrack
    /\ Becomes(open([St EXCEPT !.timer = [@ EXCEPT !.state = "fired"]], "delay"))

\* The page is scrolled (by the user or by script), while the scroll position
\* can still be read by a callback of the widget.
PageScroll ==
    /\ raf = "pending" \/ listeners # {}
    /\ \E top \in ScrollTops :
          /\ top <= MaxOf(0, scrollHeight - innerHeight)
          /\ top # scrollTop
          /\ Becomes([St EXCEPT !.scrollTop = top])

\* A scroll event is dispatched to onScroll on one of its two targets.
OnScroll(target) ==
    /\ <<target, "scroll">> \in listeners
    /\ CanTrack
    /\ Becomes(maybeOpen(St))

\* A wheel or touchmove event is dispatched to onScrollIntent.
OnScrollIntent(type) ==
    /\ <<"window", type>> \in listeners
    /\ CanTrack
    /\ Becomes(onScrollIntent(St))

\* The requestAnimationFrame callback, the initial check.
RafFire ==
    /\ raf = "pending"
    /\ CanTrack
    /\ Becomes(maybeOpen([St EXCEPT !.raf = "done"]))

\* A click on one of the four wired controls; the reason is the ref's name,
\* and close() without an argument is the click on the close control.
Click(ref) ==
    /\ phase = "attached"
    /\ CanTrack
    /\ Becomes(close(St, IF ref = "cta" THEN "cta" ELSE ref))

\* open() called from outside without an argument.
DirectOpen ==
    /\ phase = "attached"
    /\ CanTrack
    /\ Becomes(open(St, "manual"))

\* A keydown event reaches #onKeyDown.
KeyDown(key, shift) ==
    /\ keydown
    /\ (isOpen /\ key = "Escape") => CanTrack
    /\ \E s \in onKeyDown(St, key, shift) : Becomes(s)

\* Time passes, by a step that something can observe: towards the deadline of
\* the pending timer, or against the time to live of the dismissal.
Tick ==
    /\ ticks < MaxTicks
    /\ phase # "new"
    /\ \E d \in TickSteps :
          /\ \/ d \in TimerSteps /\ timer.state = "pending"
                                 /\ now < timer.setAt + timer.delay
             \/ d \in TtlSteps /\ OrZero(cfg.dismissHours) > 0
          /\ Becomes([St EXCEPT !.now = now + d, !.ticks = ticks + 1])

Next ==
    \/ ConnectedCallback
    \/ DisconnectedCallback
    \/ TimerFire
    \/ PageScroll
    \/ \E target \in {"window", "scrollingEl"} : OnScroll(target)
    \/ \E type \in {"wheel", "touchmove"} : OnScrollIntent(type)
    \/ RafFire
    \/ \E ref \in Refs : Click(ref)
    \/ DirectOpen
    \/ \E key \in {"Escape", "Tab"}, shift \in BOOLEAN : KeyDown(key, shift)
    \/ Tick

Spec == Init /\ [][Next]_vars

----------------------------------------------------------------------------
(* Vocabulary of the properties *)

TriggerReasons == {"delay", "scroll", "scroll_intent_fallback"}

OpenedEvent(reason) ==
    [name |-> "popup_opened", reason |-> reason, trigger |-> cfg.trigger]

DismissedEvent(reason) ==
    [name |-> "popup_dismissed", reason |-> reason, trigger |-> "none"]

\* How many opened events with a trigger's reason have been delivered.
TriggerOpenCount ==
    BagCardinality([e \in {x \in BagToSet(events) :
                              /\ x.name = "popup_opened"
                              /\ x.reason \in TriggerReasons} |-> events[e]])

\* No callback of the trigger engine is or has been registered.
NeverArmed == timer.state = "none" /\ raf = "none" /\ listeners = {}

ConnectStep == phase = "new" /\ phase' = "attached"

\* A step of close(): only close() sets lastCall to "close", and it always
\* delivers an event.
CloseStep == lastCall' = "close" /\ events' # events

\* A step in which close() has been called, told by what it leaves whether or
\* not it ran to its end.
CloseCallStep == lastCall' = "close" /\ (lastCall # "close" \/ events' # events)

\* A click on one of the four wired controls, each of which calls close().
ClickStep == \E ref \in Refs : Click(ref)

\* A scroll signal: a scroll event on either target, or the initial check.
ScrollSignalStep == RafFire \/ \E target \in {"window", "scrollingEl"} : OnScroll(target)

IntentStep == \E type \in {"wheel", "touchmove"} : OnScrollIntent(type)

\* A step of a callback that can call open(): a trigger callback, or open()
\* called from outside.
OpenCallStep == DirectOpen \/ TimerFire \/ IntentStep \/ ScrollSignalStep

NonScrollable == scrollHeight - innerHeight <= 0
Scrollable == scrollHeight - innerHeight > 0

Delivered(e) == BagIn(e, events)
Delivers(e) == events' = events (+) SetToBag({e})

\* dismissHours as the configuration gives it: a positive number, or off.
RawHours ==
    IF raw.blob = "json" /\ raw.dismissHours.kind = "num" THEN raw.dismissHours.val
    ELSE 0

\* clamp(h, 0, 720) hours, in seconds
TtlOf(h) == (IF h < 0 THEN 0 ELSE IF h > 720 THEN 720 ELSE h) * 3600

\* The reasons an opened event and a dismissed event are delivered with.
OpenReasons == {"delay", "scroll", "scroll_intent_fallback", "manual"}
CloseReasons == {"close", "overlay", "secondary", "cta", "escape"}

\* The overflow values of html and body, and those the held lock has saved.
Overflow == <<htmlOverflow, bodyOverflow>>
SavedOverflow == <<unlockScroll.prevHtml, unlockScroll.prevBody>>

\* The pairs of overflow values the page can be constructed with.
InitialOverflows == {sc.overflow : sc \in Scenarios}

\* Reading the store fails: getItem throws, or the stored text does not parse.
ReadFails == mode = "denied" \/ storage.kind = "garbage"

\* A numeric field of the blob when it is a number, its default otherwise.
FieldOr(v, d) == IF v.kind = "num" THEN v.val ELSE d

\* The configuration the blob resolves to when absent and non-numeric fields
\* take their defaults.
ClaimConfig ==
    IF raw.blob # "json"
    THEN [trigger |-> "delay", delayMs |-> Num(3000), scrollPercent |-> Num(50),
          dismissHours |-> Num(0)]
    ELSE [trigger |-> IF raw.trigger = "scroll" THEN "scroll" ELSE "delay",
          delayMs |-> Num(FieldOr(raw.delayMs, 3000)),
          scrollPercent |-> Num(FieldOr(raw.scrollPercent, 50)),
          dismissHours |-> Num(FieldOr(raw.dismissHours, 0))]

\* The dialog container and its focusable descendants that are rendered.
InDialog == {"dialog"} \cup {visible[i] : i \in 1..Len(visible)}

\* A Tab or Shift+Tab press that moves the focus while the popup is open: no
\* other step moves the focus without delivering an event.
TabStep == isOpen /\ activeElement' # activeElement /\ events' = events

\* clamp(scrollPercent, 1, 95) of the resolved configuration
ClaimThreshold ==
    LET p == cfg.scrollPercent.val
    IN IF p < 1 THEN 1 ELSE IF p > 95 THEN 95 ELSE p

\* scrollTop / (scrollHeight - innerHeight) * 100 >= clamp(scrollPercent, 1, 95)
ClaimPctReached == scrollTop * 100 >= ClaimThreshold * (scrollHeight - innerHeight)

\* clamp(delayMs, 0, 120000) milliseconds, in seconds
ClaimDelaySeconds ==
    LET d == cfg.delayMs.val
    IN (IF d < 0 THEN 0 ELSE IF d > 120000 THEN 120000 ELSE d) \div 1000

----------------------------------------------------------------------------
(* C1: within one attachment the trigger engine causes at most one Open
   transition: once a trigger-originated open() has taken effect, no later
   trigger callback opens the popup again. *)
C1_AtMostOneTriggerOpen == phase = "attached" => TriggerOpenCount <= 1

(* C2: if isDismissed() is true at attachment, connectedCallback registers no
   timer, no scroll / wheel / touchmove listener and no next-frame check; a
   widget attached with nothing armed stays so, and delivers no
   trigger-originated opened event. *)
C2_DismissedArmsNothing ==
    /\ [][ConnectStep /\ isDismissed(St')
            => NeverArmed' /\ detachTrigger' = "null"]_vars
    /\ [][phase = "attached" /\ NeverArmed => NeverArmed']_vars
    /\ [](NeverArmed => TriggerOpenCount = 0)

C2_Witness ==
    /\ phase = "attached"
    /\ cfg.trigger = "scroll"
    /\ NeverArmed
    /\ isDismissed(St)
    /\ lastCall = "open"

(* C3: with dismissHours = h > 0 and a working store, a close at time t writes
   the record {dismissedAt: t}, and with that record stored isDismissed() at
   time t' is true exactly when t' - t < clamp(h, 0, 720) hours. *)
C3_DismissalTtl ==
    /\ [][RawHours > 0 /\ mode = "ok" /\ CloseStep => storage' = Record(now)]_vars
    /\ [](/\ phase # "new"
          /\ RawHours > 0
          /\ mode = "ok"
          /\ storage.kind = "record"
          /\ storage.dismissedAt > 0
          => (isDismissed(St) <=> now - storage.dismissedAt < TtlOf(RawHours)))

C3_Witness ==
    /\ lastCall = "close"
    /\ RawHours = 800
    /\ storage = Record(StartNow)
    /\ now - storage.dismissedAt = TtlOf(720)
    /\ ~isDismissed(St)

(* C4: with dismissHours <= 0, absent or non-numeric, no step writes the
   store and isDismissed() is false in every state, whatever the store
   holds. *)
C4_DismissalOff ==
    /\ [][RawHours <= 0 => storage' = storage]_vars
    /\ [](RawHours <= 0 => ~isDismissed(St))

C4_Witness ==
    /\ RawHours <= 0
    /\ raw.dismissHours = Text
    /\ storage = Record(StartNow - 10)
    /\ lastCall = "close"
    /\ BagCardinality(events) = MaxEvents

(* C5: calling close twice in a row: the second call is a no-op on the open
   flag, aria-hidden, the scroll lock, the captured focus, the persisted
   record and the events delivered to the Event Sink. *)
C5_SecondCloseNoOp ==
    [][lastCall = "close" /\ ClickStep
        => /\ isOpen' = isOpen
           /\ ariaHidden' = ariaHidden
           /\ unlockScroll' = unlockScroll
           /\ htmlOverflow' = htmlOverflow
           /\ bodyOverflow' = bodyOverflow
           /\ lastActive' = lastActive
           /\ storage' = storage
           /\ events' = events]_vars

(* C5 as amended: the second call leaves the open flag, aria-hidden, the
   scroll lock, the page overflow, the captured focus and the focused element
   as they are, delivers one more dismissed event, and with dismissHours > 0
   and a working store writes the record again with the current time. *)
C5_SecondCloseEffect ==
    [][lastCall = "close" /\ ClickStep
        => /\ isOpen' = isOpen
           /\ ariaHidden' = ariaHidden
           /\ unlockScroll' = unlockScroll
           /\ htmlOverflow' = htmlOverflow
           /\ bodyOverflow' = bodyOverflow
           /\ lastActive' = lastActive
           /\ activeElement' = activeElement
           /\ \E ref \in Refs : Delivers(DismissedEvent(ref))
           /\ storage' = IF RawHours > 0 /\ mode = "ok" THEN Record(now)
                         ELSE storage]_vars

C5_Witness ==
    /\ lastCall = "close"
    /\ RawHours = 1
    /\ BagCardinality(events) = 2
    /\ \A e \in BagToSet(events) : e.name = "popup_dismissed"
    /\ now > StartNow
    /\ storage = Record(now)

(* C6: after disconnectedCallback the global keydown listener is removed, no
   trigger callback is registered and no scroll lock is held, in every state
   from detachment onward. *)
C6_DetachLeavesNothing ==
    phase = "detached"
        => /\ ~keydown
           /\ listeners = {}
           /\ timer.state # "pending"
           /\ ~unlockScroll.held

(* C7: scroll strategy on a page that cannot scroll: no scroll event and no
   initial check opens the popup; a wheel or touchmove signal reaching the
   widget while it is not dismissed opens it with the fallback reason and
   removes every listener, and no second trigger-originated open follows. *)
C7_ShortPageFallback ==
    /\ [](NonScrollable => ~Delivered(OpenedEvent("scroll")))
    /\ [][NonScrollable /\ listeners # {} /\ ~isDismissed(St) /\ IntentStep
            => /\ isOpen'
               /\ listeners' = {}
               /\ Delivers(OpenedEvent("scroll_intent_fallback"))]_vars
    /\ [](NonScrollable => TriggerOpenCount <= 1)

C7_Witness ==
    /\ NonScrollable
    /\ cfg.trigger = "scroll"
    /\ raf = "done"
    /\ isOpen
    /\ listeners = {}
    /\ events = SetToBag({OpenedEvent("scroll_intent_fallback")})

(* C8: scroll strategy on a page that can scroll, not dismissed: a scroll
   signal opens the popup with reason scroll exactly when
   scrollTop / (scrollHeight - innerHeight) * 100 >= clamp(scrollPercent, 1, 95),
   the opening removes every listener, and no wheel or touchmove signal opens
   it. *)
C8_ScrollThreshold ==
    /\ [][/\ cfg.trigger = "scroll"
          /\ Scrollable
          /\ ~cfg.scrollPercent.nan
          /\ ~isDismissed(St)
          /\ ScrollSignalStep
          => /\ Delivers(OpenedEvent("scroll")) <=> ClaimPctReached
             /\ ClaimPctReached => isOpen' /\ listeners' = {}]_vars
    /\ [](Scrollable => ~Delivered(OpenedEvent("scroll_intent_fallback")))

C8_Witness ==
    /\ Scrollable
    /\ cfg.scrollPercent = Num(200)
    /\ scrollTop = 95
    /\ isOpen
    /\ listeners = {}
    /\ events = SetToBag({OpenedEvent("scroll")})

(* C9: delay strategy: the timer is set for clamp(delayMs, 0, 120000)
   milliseconds, and its callback runs, and opens the popup with reason delay
   when not dismissed, at or after that long since arming and never before. *)
C9_DelayClamped ==
    /\ [](timer.state # "none" /\ ~cfg.delayMs.nan
            => timer.delay = ClaimDelaySeconds)
    /\ [][timer.state = "pending" /\ timer'.state = "fired" /\ ~cfg.delayMs.nan
            => /\ now >= timer.setAt + ClaimDelaySeconds
               /\ ~isDismissed(St) => Delivers(OpenedEvent("delay"))]_vars

C9_Witness ==
    /\ cfg.delayMs = Num(200000)
    /\ timer.state = "fired"
    /\ now = timer.setAt + 120
    /\ events = SetToBag({OpenedEvent("delay")})

(* C10: arming registers the callbacks of exactly one strategy: the timer
   alone unless trigger is "scroll", the four listeners and the initial check
   alone when it is; callbacks of both are never registered together. *)
C10_OneStrategy ==
    /\ [](timer.state = "none" \/ (listeners = {} /\ raf = "none"))
    /\ [][ConnectStep /\ ~isDismissed(St')
            => IF raw.blob = "json" /\ raw.trigger = "scroll"
               THEN /\ listeners' = ScrollListeners \cup IntentListeners
                    /\ raf' = "pending"
                    /\ timer'.state = "none"
               ELSE /\ timer'.state = "pending"
                    /\ listeners' = {}
                    /\ raf' = "none"]_vars

C10_Witness ==
    /\ phase = "attached"
    /\ raw.trigger = "hover"
    /\ timer.state = "pending"
    /\ listeners = {}
    /\ raf = "none"

(* C11: while the popup is open after open() has run, every Tab or Shift+Tab
   press leaves the focus on a rendered focusable descendant of the dialog or
   on the dialog container: Tab on the last wraps to the first, Shift+Tab on
   the first wraps to the last, and with no rendered focusable descendant the
   focus goes to the dialog container. *)
C11_FocusTrapped ==
    [][lastActive # "null" /\ TabStep
        => /\ activeElement' \in InDialog
           /\ visible = <<>> => activeElement' = "dialog"]_vars

(* C12: every event delivered to the Event Sink by an open or close
   transition carries one of the reasons "delay", "scroll",
   "scroll-intent-fallback", "manual", "close", "overlay", "secondary", "cta",
   "escape". *)
C12_ReasonsAsSpecified ==
    \A e \in BagToSet(events) :
        e.reason \in {"delay", "scroll", "scroll-intent-fallback", "manual",
                      "close", "overlay", "secondary", "cta", "escape"}

(* C12 as amended: every opened event carries one of "delay", "scroll",
   "scroll_intent_fallback", "manual" and every dismissed event one of
   "close", "overlay", "secondary", "cta", "escape"; the open fired by the
   wheel / touchmove fallback reports "scroll_intent_fallback". *)
C12_ReasonsDelivered ==
    /\ [](\A e \in BagToSet(events) :
            /\ e.name \in {"popup_opened", "popup_dismissed"}
            /\ e.name = "popup_opened" => e.reason \in OpenReasons
            /\ e.name = "popup_dismissed" => e.reason \in CloseReasons)
    /\ [][NonScrollable /\ listeners # {} /\ events' # events /\ IntentStep
            => Delivers(OpenedEvent("scroll_intent_fallback"))]_vars

C12_Witness ==
    /\ Delivered(OpenedEvent("scroll_intent_fallback"))
    /\ Delivered(DismissedEvent("escape"))
    /\ Delivered(OpenedEvent("manual"))

(* C13: open() invoked while isDismissed() is true, by a trigger callback or
   from outside, leaves the open flag, aria-hidden, the captured focus, the
   scroll lock, the page overflow, the focused element and the delivered
   events unchanged; the popup never becomes open in a state where
   isDismissed() is true. *)
C13_DismissedOpenNoOp ==
    /\ [][isDismissed(St) /\ OpenCallStep
            => /\ isOpen' = isOpen
               /\ ariaHidden' = ariaHidden
               /\ lastActive' = lastActive
               /\ activeElement' = activeElement
               /\ unlockScroll' = unlockScroll
               /\ htmlOverflow' = htmlOverflow
               /\ bodyOverflow' = bodyOverflow
               /\ events' = events]_vars
    /\ [][~isOpen /\ isOpen' => ~isDismissed(St) /\ ~isDismissed(St')]_vars

C13_Witness ==
    /\ isDismissed(St)
    /\ lastCall = "open"
    /\ timer.state = "fired"
    /\ ~isOpen
    /\ ariaHidden = "true"
    /\ ~unlockScroll.held
    /\ \A e \in BagToSet(events) : e.name = "popup_dismissed"

(* C14: delay strategy: a timer still pending when close() ran has been
   cancelled by it, so its callback never makes the popup open afterwards,
   whatever dismissHours is. *)
C14_CloseCancelsTimer ==
    [][lastCall = "close" /\ timer.state = "pending" /\ timer'.state = "fired"
        => ~isOpen' /\ events' = events]_vars

(* C15: once the trigger has been disarmed (#detachTrigger called and reset
   to null by open() or by detachment) no callback registered when arming is
   left: no pending timer, no scroll / wheel / touchmove listener and no
   pending next-frame check. *)
C15_DisarmReleasesAll ==
    phase # "new" /\ detachTrigger = "null"
        => /\ timer.state # "pending"
           /\ listeners = {}
           /\ raf # "pending"

(* C16: a close of the popup that open() opened, after any number of further
   open() calls while it was open, puts the focus back on the element that
   had it immediately before the popup became open, and clears the captured
   reference. *)
C16_FocusRestored ==
    [][isOpen /\ openedFrom # "null" /\ CloseStep
        => /\ activeElement' = openedFrom
           /\ lastActive' = "null"]_vars

(* C17: while the widget holds a scroll lock the html and body overflow are
   both "hidden"; whenever it holds none they are the pair the page had
   before the first lock: acquiring saves the pair then in force, a further
   open() while locked keeps the saved pair, releasing writes the saved pair
   back, and no step without a lock touches the overflow. *)
C17_LockRestoresPrior ==
    /\ [](unlockScroll.held => Overflow = <<"hidden", "hidden">>)
    /\ [](~unlockScroll.held => Overflow \in InitialOverflows)
    /\ [][~unlockScroll.held /\ unlockScroll'.held => SavedOverflow' = Overflow]_vars
    /\ [][unlockScroll.held /\ unlockScroll'.held => SavedOverflow' = SavedOverflow]_vars
    /\ [][unlockScroll.held /\ ~unlockScroll'.held => Overflow' = SavedOverflow]_vars
    /\ [][~unlockScroll.held /\ ~unlockScroll'.held => Overflow' = Overflow]_vars

C17_Witness ==
    /\ ~unlockScroll.held
    /\ Overflow = <<"scroll", "auto">>
    /\ lastCall = "close"
    /\ BagCardinality(events) = 3
    /\ \E r \in CloseReasons :
          \A e \in BagToSet(events) :
              e.name = "popup_dismissed" => e = DismissedEvent(r) /\ events[e] = 1

(* C18: with dismissHours > 0, while reading the store fails (the access
   throws or the stored text does not parse) isDismissed() is false, so
   attachment arms the trigger and the timer's open() opens the popup; and a
   close() whose write is refused still closes the popup, releases the scroll
   lock, delivers the dismissed event, restores the focus and clears the
   captured reference, leaving the store as it was. *)
C18_PersistenceFailOpen ==
    /\ [](phase # "new" /\ RawHours > 0 /\ ReadFails => ~isDismissed(St))
    /\ [][RawHours > 0 /\ ReadFails /\ ConnectStep => ~NeverArmed']_vars
    /\ [][/\ RawHours > 0
          /\ ReadFails
          /\ timer.state = "pending"
          /\ timer'.state = "fired"
          => isOpen' /\ Delivers(OpenedEvent("delay"))]_vars
    /\ [][RawHours > 0 /\ mode # "ok" /\ CloseCallStep
            => /\ storage' = storage
               /\ ~isOpen'
               /\ ariaHidden' = "true"
               /\ ~unlockScroll'.held
               /\ Overflow' = IF unlockScroll.held THEN SavedOverflow ELSE Overflow
               /\ \E r \in CloseReasons : Delivers(DismissedEvent(r))
               /\ lastActive' = "null"
               /\ lastActive # "null" => activeElement' = lastActive]_vars

C18_Witness ==
    /\ RawHours = 1
    /\ mode = "denied"
    /\ storage = Record(StartNow - 10)
    /\ Delivered(OpenedEvent("delay"))
    /\ lastCall = "close"
    /\ ~isOpen
    /\ ~unlockScroll.held
    /\ activeElement = "page"
    /\ BagCardinality(events) = 2

(* C19: once attached, the resolved configuration is complete: the defaults
   for an absent or unparsable blob; otherwise trigger is scroll only when
   given as "scroll", and each numeric field that is absent or non-numeric is
   its default (3000, 50, 0), in the resolved record and where it is used:
   the timer's delay, the scroll threshold, the hours of the dismissal. *)
C19_ConfigResolved ==
    phase # "new"
        => /\ cfg = ClaimConfig
           /\ timer.state # "none"
                => timer.delay = clamp(ClaimConfig.delayMs.val, 0, 120000) \div 1000
           /\ threshold(St) = clamp(ClaimConfig.scrollPercent.val, 1, 95)
           /\ OrZero(cfg.dismissHours) = ClaimConfig.dismissHours.val

(* C20: while a widget that was attached closed remains attached (attachment
   of a closed widget writes aria-hidden, as every open() and close() does),
   the scroll lock is held exactly when the is-open flag is set, and
   aria-hidden is "false" exactly when it is set. *)
C20_LockIffOpen ==
    phase = "attached" /\ ariaHidden # "unset"
        => /\ unlockScroll.held <=> isOpen
           /\ ariaHidden = "false" <=> isOpen
           /\ ariaHidden \in {"true", "false"}

C20_Witness ==
    /\ phase = "attached"
    /\ raw.blob = "absent"
    /\ isOpen
    /\ unlockScroll.held
    /\ ariaHidden = "false"
    /\ lastCall = "open"
    /\ Delivered(DismissedEvent("escape"))
    /\ Delivered(OpenedEvent("delay"))
    /\ Delivered(OpenedEvent("manual"))

====
